---- MODULE Spec2Model ----
(***************************************************************************)
(* RSI / NATR market-making scripts for hummingbot.                        *)
(*                                                                         *)
(*   variant 1: src/rsi-amm-joi.py     class RSIAMM                        *)
(*   variant 2: src/rsi-amm-joi-v2.py  classes RsiAmmV2Config, RsiAmmV2    *)
(*                                                                         *)
(* The host framework (clock, market data provider, candle feeds, budget   *)
(* checker, order tracker) is the environment: what it hands to the        *)
(* scripts is an input of the action that models the handler.              *)
(*                                                                         *)
(* Numbers.  Prices are rationals.  NATR is the raw indicator value in     *)
(* percent (get_natr divides it by 100), rsi_spread_change_percentage is   *)
(* kept in percent (0.5 is 50), so that                                    *)
(*     adjusted_mid_price = mid * (10000 +/- bid*natr*pct) / 10000         *)
(*     buy_price  = adjusted_mid_price * (100 - bid*natr) / 100            *)
(*     sell_price = adjusted_mid_price * (100 + ask*natr) / 100            *)
(* and the model carries the numerators: adjusted_mid_price over 10000,    *)
(* buy_price and sell_price over 1000000.  The rounding of the binary      *)
(* floating point factors (Decimal(1 + ...)) is not modelled.              *)
(***************************************************************************)
EXTENDS Integers, Sequences, FiniteSets, TLC

VARIABLES
    variant,            \* 1 = RSIAMM, 2 = RsiAmmV2
    strategy,           \* the fields of the strategy object
    ready,              \* market_data_provider.ready
    current_timestamp,  \* the host clock
    active_orders,      \* the host's order tracker (get_active_orders)
    tick,               \* what the most recent call of the tick handler did
    quoted_mid,         \* mid price behind the most recently placed quotes
    last_refresh,       \* time of the most recent signal recomputation
    ticks,              \* number of calls of the tick handler so far
    call                \* most recent direct application of a function

vars == <<variant, strategy, ready, current_timestamp, active_orders, tick,
          quoted_mid, last_refresh, ticks, call>>

(***************************************************************************)
(* Bounds of the model.                                                    *)
(***************************************************************************)
MaxTicks == 3          \* calls of the tick handler in a run

(***************************************************************************)
(* Values.                                                                 *)
(***************************************************************************)
None == 0 - 1          \* last_mid_price = None; also "no timestamp yet"
NaN == 0 - 2           \* an oscillator value that is not a number
NoSignal == 2          \* get_signal's None

BUY == 1
SELL == 0 - 1
NEUTRAL == 0

Abs(x) == IF x < 0 THEN 0 - x ELSE x

\* Comparisons with NaN are false, as in Python.
Lt(a, b) == a # NaN /\ b # NaN /\ a < b
Gt(a, b) == a # NaN /\ b # NaN /\ a > b

(***************************************************************************)
(* Class attributes of RSIAMM (variant 1) and RsiAmmV2Config (variant 2).  *)
(***************************************************************************)
bid_spread == 1
ask_spread == 1
rsi_refresh_time == 15
order_amount == 5                        \* 0.0005, in units of 0.0001
buffer_size == 100
rsi_spread_change_percentage == 50       \* 0.5, in percent
order_amount_quote == 30
rsi_period == 14
rsi_low == 30
rsi_high == 70
RSI_LENGTH == 7                          \* ta.rsi(length=7)
RSI_OVER == 70                           \* if rsi_value > 70
RSI_UNDER == 30                          \* elif rsi_value < 30

Lengths == {RSI_LENGTH, rsi_period}

\* RSIAMM's class attributes and RsiAmmV2's, with its configuration object.
\* RsiAmmV2 itself defines rsi_signal, last_mid_price and config only:
\* create_timestamp and rsi_refresh_time are fields of config, and config has
\* no natr_period.
StrategyInit(v) ==
    [ rsi_signal |-> 0,
      create_timestamp |-> 0,
      last_mid_price |-> None,
      bid_spread |-> bid_spread,
      ask_spread |-> ask_spread,
      rsi_refresh_time |-> rsi_refresh_time,
      buffer_size |-> buffer_size,
      rsi_spread_change_percentage |-> rsi_spread_change_percentage,
      order_amount |-> IF v = 1 THEN order_amount ELSE order_amount_quote,
      trading_pair |-> "BTC-USDT",
      rsi_period |-> IF v = 1 THEN RSI_LENGTH ELSE rsi_period,
      rsi_low |-> IF v = 1 THEN RSI_UNDER ELSE rsi_low,
      rsi_high |-> IF v = 1 THEN RSI_OVER ELSE rsi_high ]

(***************************************************************************)
(* Results of a call: a value, or the exception that escapes it.           *)
(***************************************************************************)
Return(v) == [raised |-> "", value |-> v]
Raise(e) == [raised |-> e, value |-> None]

(***************************************************************************)
(* Variant 1: get_processed_df and get_rsi_signal.                         *)
(* rsi is the oscillator of the latest candle per window length, as        *)
(* pandas_ta would compute it; get_processed_df asks for length 7 and      *)
(* get_rsi_signal reads the last cell of the last row, which does not      *)
(* exist in an empty frame (IndexError).                                   *)
(***************************************************************************)
get_processed_df(window_empty, rsi) ==
    [empty |-> window_empty, rsi_value |-> rsi[RSI_LENGTH]]

get_rsi_signal(window_empty, rsi) ==
    LET candles_df == get_processed_df(window_empty, rsi)
        rsi_value == candles_df.rsi_value
    IN  IF candles_df.empty THEN Raise("IndexError")
        ELSE IF Gt(rsi_value, RSI_OVER) THEN Return(SELL)
        ELSE IF Lt(rsi_value, RSI_UNDER) THEN Return(BUY)
        ELSE Return(NEUTRAL)

(***************************************************************************)
(* Variant 2: get_signal(connector_name, trading_pair), its body.  The     *)
(* signal column starts at 0, is set to 1 where RSI < rsi_low and then to  *)
(* -1 where RSI > rsi_high; the last row's signal is returned, None for an *)
(* empty frame.                                                            *)
(***************************************************************************)
\* get_signal with the thresholds themselves taken as crossed.
get_signal_inclusive(config, window_empty, rsi) ==
    LET v == rsi[config.rsi_period]
        signal1 == IF v # NaN /\ v <= config.rsi_low THEN BUY ELSE NEUTRAL
        signal2 == IF v # NaN /\ v >= config.rsi_high THEN SELL ELSE signal1
    IN  IF window_empty THEN Return(NoSignal) ELSE Return(signal2)

get_signal(config, window_empty, rsi) ==
    LET v == rsi[config.rsi_period]
        signal0 == NEUTRAL
        signal1 == IF Lt(v, config.rsi_low) THEN BUY ELSE signal0
        signal2 == IF Gt(v, config.rsi_high) THEN SELL ELSE signal1
    IN  IF window_empty THEN Return(NoSignal) ELSE Return(signal2)

(***************************************************************************)
(* get_natr.  Variant 1 returns natr.iloc[-1] / 100; the model keeps the   *)
(* raw percent value and the division is in the scale of the prices.       *)
(* Variant 2 reads self.config.natr_period, which RsiAmmV2Config does not  *)
(* define (AttributeError).                                                *)
(***************************************************************************)
get_natr(v, natr) ==
    IF v = 1 THEN Return(natr) ELSE Raise("AttributeError")

(***************************************************************************)
(* create_proposal, the same in both variants after get_natr.              *)
(* adjusted_mid_price is over 10000, the prices are over 1000000.          *)
(***************************************************************************)
OrderCandidate(s, side, price) ==
    [ trading_pair |-> s.trading_pair, is_maker |-> TRUE,
      order_type |-> "LIMIT", order_side |-> side,
      amount |-> s.order_amount, price |-> price ]

\* create_proposal with the sell price on the bid side of the reference.
create_proposal_sell_below(v, s, mid_price, natr_in) ==
    LET natr == get_natr(v, natr_in)
        shift == s.bid_spread * natr.value * s.rsi_spread_change_percentage
        adjusted_mid_price ==
            IF s.rsi_signal = 1 THEN mid_price * (10000 + shift)
            ELSE IF s.rsi_signal = 0 - 1 THEN mid_price * (10000 - shift)
            ELSE mid_price * 10000
        buy_price == adjusted_mid_price * (100 - s.bid_spread * natr.value)
        sell_price == adjusted_mid_price * (100 - s.ask_spread * natr.value)
    IN  IF natr.raised # "" THEN [raised |-> natr.raised]
        ELSE [ raised |-> "",
               adjusted_mid_price |-> adjusted_mid_price,
               orders |-> << OrderCandidate(s, "BUY", buy_price),
                             OrderCandidate(s, "SELL", sell_price) >> ]

create_proposal(v, s, mid_price, natr_in) ==
    LET natr == get_natr(v, natr_in)
        shift == s.bid_spread * natr.value * s.rsi_spread_change_percentage
        adjusted_mid_price ==
            IF s.rsi_signal = 1 THEN mid_price * (10000 + shift)
            ELSE IF s.rsi_signal = 0 - 1 THEN mid_price * (10000 - shift)
            ELSE mid_price * 10000
        buy_price == adjusted_mid_price * (100 - s.bid_spread * natr.value)
        sell_price == adjusted_mid_price * (100 + s.ask_spread * natr.value)
    IN  IF natr.raised # "" THEN [raised |-> natr.raised]
        ELSE [ raised |-> "",
               adjusted_mid_price |-> adjusted_mid_price,
               orders |-> << OrderCandidate(s, "BUY", buy_price),
                             OrderCandidate(s, "SELL", sell_price) >> ]

(***************************************************************************)
(* adjust_proposal_to_budget: the host's budget checker returns the        *)
(* candidates, each one unchanged or, with all_or_none=True, sized to zero *)
(* when the balance does not cover it.  zeroed is the host's decision.     *)
(***************************************************************************)
\* A budget adjustment that shrinks a candidate instead of zeroing it.
adjust_proposal_partially(proposal, zeroed) ==
    [ i \in DOMAIN proposal |->
        IF proposal[i].order_side \in zeroed
        THEN [proposal[i] EXCEPT !.amount = proposal[i].amount - 1]
        ELSE proposal[i] ]

adjust_proposal_to_budget(proposal, zeroed) ==
    [ i \in DOMAIN proposal |->
        IF proposal[i].order_side \in zeroed
        THEN [proposal[i] EXCEPT !.amount = 0]
        ELSE proposal[i] ]

(***************************************************************************)
(* The host's order tracker.  An order is known by the tick that placed it *)
(* and its side.  cancel marks it with a pending cancel request.           *)
(***************************************************************************)
\* cancel_all_orders that stops at the buy orders.
cancel_buy_orders(orders) ==
    { IF o.side = "BUY" THEN [o EXCEPT !.cancel_requested = TRUE] ELSE o
      : o \in orders }

cancel_all_orders(orders) ==
    { [o EXCEPT !.cancel_requested = TRUE] : o \in orders }

place_order(order, now) ==
    [placed_at |-> now, side |-> order.order_side, cancel_requested |-> FALSE]

place_orders(orders, proposal, now) ==
    orders \cup { place_order(proposal[i], now) : i \in DOMAIN proposal }

(***************************************************************************)
(* The two tests of the tick handler and the refresh of the cached signal. *)
(***************************************************************************)
refresh_due(s, now) == s.create_timestamp <= now

\* refresh_signal that writes the next refresh time into the interval.
refresh_signal_into_interval(s, now, signal) ==
    [s EXCEPT !.rsi_signal = signal,
              !.rsi_refresh_time = s.rsi_refresh_time + now]

refresh_signal(s, now, signal) ==
    [s EXCEPT !.rsi_signal = signal,
              !.create_timestamp = s.rsi_refresh_time + now]

should_requote(s, new_mid_price) ==
    \/ s.last_mid_price = None
    \/ Abs(new_mid_price - s.last_mid_price) > s.buffer_size

(***************************************************************************)
(* What a call of the tick handler leaves behind for the properties.       *)
(***************************************************************************)
NoTick ==
    [ outcome |-> "none", error |-> "", new_mid_price |-> None,
      due |-> FALSE, refreshed |-> FALSE, window_empty |-> FALSE,
      natr |-> None, steps |-> <<>>, requests |-> <<>> ]

Observed(outcome, error, mid, due, refreshed, empty, natr, steps, requests) ==
    [ outcome |-> outcome, error |-> error, new_mid_price |-> mid,
      due |-> due, refreshed |-> refreshed, window_empty |-> empty,
      natr |-> natr, steps |-> steps, requests |-> requests ]

(***************************************************************************)
(* What the host can hand to a tick: the mid price, the candle window of   *)
(* candles[0] (empty, or with its oscillator), the NATR of the provider's  *)
(* candles, the candidates the budget checker sizes to zero, and the time  *)
(* the clock advances by.                                                  *)
(***************************************************************************)
MidPrices == {1000, 1100, 1101}
RsiInputs == {20, 50, 80}
NatrInputs == {1, 3}
Sides == {"BUY", "SELL"}
ClockSteps == {1, 14, 15}

RsiOf(x) == [l \in Lengths |-> x]

Windows ==
    {[empty |-> TRUE, rsi |-> RsiOf(NaN)]} \cup
    {[empty |-> FALSE, rsi |-> RsiOf(x)] : x \in RsiInputs}

(***************************************************************************)
(* RSIAMM.on_tick at time now.  An exception leaves the handler where it   *)
(* is raised.                                                              *)
(***************************************************************************)
\* Lines 72-80, with s1 the strategy after the refresh test.
requote_or_idle(s1, now, new_mid_price, due, window_empty) ==
    LET stepsR == IF due THEN <<"refresh">> ELSE <<>>
    IN  IF should_requote(s1, new_mid_price)
        THEN \E natr \in NatrInputs, zeroed \in SUBSET Sides :
             LET cancelled == cancel_all_orders(active_orders)
                 proposal == create_proposal(1, s1, new_mid_price, natr)
                 proposal_adjusted ==
                     adjust_proposal_to_budget(proposal.orders, zeroed)
             IN  /\ active_orders' = place_orders(cancelled, proposal_adjusted, now)
                 /\ strategy' = [s1 EXCEPT !.last_mid_price = new_mid_price]
                 /\ quoted_mid' = new_mid_price
                 /\ last_refresh' = IF due THEN now ELSE last_refresh
                 /\ tick' = Observed("requote", "", new_mid_price, due, due,
                                     window_empty, natr,
                                     stepsR \o <<"cancel", "propose", "adjust",
                                                 "place", "set_last_mid_price">>,
                                     proposal_adjusted)
        ELSE /\ strategy' = s1
             /\ last_refresh' = IF due THEN now ELSE last_refresh
             /\ tick' = Observed("idle", "", new_mid_price, due, due,
                                 window_empty, None, stepsR, <<>>)
             /\ UNCHANGED <<active_orders, quoted_mid>>

on_tick(now) ==
    IF ~ready
    THEN /\ tick' = Observed("not_ready", "", None, FALSE, FALSE, FALSE, None,
                             <<>>, <<>>)
         /\ UNCHANGED <<strategy, active_orders, quoted_mid, last_refresh>>
    ELSE \E new_mid_price \in MidPrices :
         IF refresh_due(strategy, now)
         THEN \E w \in Windows :
              LET signal == get_rsi_signal(w.empty, w.rsi)
              IN  IF signal.raised # ""
                  THEN /\ tick' = Observed("error", signal.raised, new_mid_price,
                                           TRUE, FALSE, w.empty, None, <<>>, <<>>)
                       /\ UNCHANGED <<strategy, active_orders, quoted_mid,
                                      last_refresh>>
                  ELSE requote_or_idle(refresh_signal(strategy, now, signal.value),
                                       now, new_mid_price, TRUE, w.empty)
         ELSE requote_or_idle(strategy, now, new_mid_price, FALSE, FALSE)

(***************************************************************************)
(* RsiAmmV2.create_actions_proposal at time now.  With the provider ready  *)
(* the handler reads self.create_timestamp and self.rsi_refresh_time,      *)
(* which RsiAmmV2 does not define (they are fields of its config), and     *)
(* calls self.get_signal() without the two arguments its definition        *)
(* requires; past those, create_proposal calls get_natr, which reads the   *)
(* undefined config.natr_period.  Every path of a ready tick raises before *)
(* the first assignment, so the handler returns no action.                 *)
(***************************************************************************)
create_actions_proposal(now) ==
    IF ~ready
    THEN /\ tick' = Observed("not_ready", "", None, FALSE, FALSE, FALSE, None,
                             <<>>, <<>>)
         /\ UNCHANGED <<strategy, active_orders, quoted_mid, last_refresh>>
    ELSE \E new_mid_price \in MidPrices, w \in Windows :
         /\ tick' = Observed("error", "AttributeError", new_mid_price,
                             FALSE, FALSE, w.empty, None, <<>>, <<>>)
         /\ UNCHANGED <<strategy, active_orders, quoted_mid, last_refresh>>

\* The clock advances and the host calls the tick handler.
Tick ==
    /\ ticks < MaxTicks
    /\ ticks' = ticks + 1
    /\ \E d \in ClockSteps :
        /\ current_timestamp' = current_timestamp + d
        /\ IF variant = 1
           THEN on_tick(current_timestamp + d)
           ELSE create_actions_proposal(current_timestamp + d)
    /\ UNCHANGED <<variant, ready, call>>

\* The provider's candle feed becomes ready, or stops being ready.
HostSetReady ==
    /\ ready' = ~ready
    /\ UNCHANGED <<variant, strategy, current_timestamp, active_orders, tick,
                   quoted_mid, last_refresh, ticks, call>>

\* An order leaves the tracker: filled, cancelled or rejected.
HostOrderDone ==
    /\ \E o \in active_orders : active_orders' = active_orders \ {o}
    /\ UNCHANGED <<variant, strategy, ready, current_timestamp, tick,
                   quoted_mid, last_refresh, ticks, call>>

NoCall == [fn |-> "none"]

Init ==
    /\ variant \in {1, 2}
    /\ strategy = StrategyInit(variant)
    /\ ready = FALSE
    /\ current_timestamp = 0
    /\ active_orders = {}
    /\ tick = NoTick
    /\ quoted_mid = None
    /\ last_refresh = None
    /\ ticks = 0
    /\ call = NoCall

Next == Tick \/ HostSetReady \/ HostOrderDone

Spec == Init /\ [][Next]_vars

(***************************************************************************)
(* The functions applied on their own, once, to inputs drawn from small    *)
(* sets.                                                                   *)
(***************************************************************************)
RsiValues == {0, 19, 20, 21, 29, 30, 31, 50, 69, 70, 71, 79, 80, 81, 100, NaN}
Thresholds == {20, 30, 70, 80}
Signals == {BUY, SELL, NEUTRAL, NoSignal}
Spreads == {1, 2}
NatrValues == {1, 50, 100}
Percentages == {0, 50, 100}
Mids == {1, 100}

\* RSIAMM.get_rsi_signal on a candle window.
CallGetRsiSignal ==
    /\ call = NoCall
    /\ \E e \in BOOLEAN, rsi \in [Lengths -> RsiValues] :
        call' = [ fn |-> "get_rsi_signal", variant |-> 1,
                  config |-> StrategyInit(1),
                  window_empty |-> e, rsi |-> rsi,
                  result |-> get_rsi_signal(e, rsi) ]
    /\ UNCHANGED <<variant, strategy, ready, current_timestamp, active_orders,
                   tick, quoted_mid, last_refresh, ticks>>

\* RsiAmmV2.get_signal on a candle window, for a configuration.
CallGetSignal ==
    /\ call = NoCall
    /\ \E e \in BOOLEAN, rsi \in [Lengths -> RsiValues],
          lo \in Thresholds, hi \in Thresholds, per \in Lengths :
        LET config == [StrategyInit(2) EXCEPT !.rsi_low = lo, !.rsi_high = hi,
                                             !.rsi_period = per]
        IN  call' = [ fn |-> "get_signal", variant |-> 2, config |-> config,
                      window_empty |-> e, rsi |-> rsi,
                      result |-> get_signal(config, e, rsi) ]
    /\ UNCHANGED <<variant, strategy, ready, current_timestamp, active_orders,
                   tick, quoted_mid, last_refresh, ticks>>

\* create_proposal of either variant, for a configuration and a cached signal.
CallCreateProposal ==
    /\ call = NoCall
    /\ \E v \in {1, 2}, m \in Mids, sig \in Signals, n \in NatrValues,
          b \in Spreads, a \in Spreads, pct \in Percentages :
        LET s == [StrategyInit(v) EXCEPT !.rsi_signal = sig,
                                        !.bid_spread = b, !.ask_spread = a,
                                        !.rsi_spread_change_percentage = pct]
        IN  call' = [ fn |-> "create_proposal", variant |-> v, config |-> s,
                      mid_price |-> m, natr |-> n,
                      result |-> create_proposal(v, s, m, n) ]
    /\ UNCHANGED <<variant, strategy, ready, current_timestamp, active_orders,
                   tick, quoted_mid, last_refresh, ticks>>

NextPure == CallGetRsiSignal \/ CallGetSignal \/ CallCreateProposal

SpecPure == Init /\ [][NextPure]_vars

(***************************************************************************)
(* Properties of the functions (SpecPure).                                 *)
(***************************************************************************)
IsSignalCall == call.fn \in {"get_rsi_signal", "get_signal"} /\ ~call.window_empty

\* The oscillator of the latest candle for the window length in use:
\* 7 in variant 1, config.rsi_period in variant 2.
LatestRsi == call.rsi[call.config.rsi_period]

\* C1 as stated: on a non-empty window the signal is BUY when the latest
\* oscillator value is below the low threshold, SELL when it is above the high
\* threshold and NEUTRAL otherwise (equality included), for the thresholds and
\* window length in use (30, 70 and 7 in variant 1, the configuration's in
\* variant 2).
C1_SignalAsClaimed ==
    IsSignalCall =>
        /\ call.result.raised = ""
        /\ Lt(LatestRsi, call.config.rsi_low) => call.result.value = BUY
        /\ Gt(LatestRsi, call.config.rsi_high) => call.result.value = SELL
        /\ (~Lt(LatestRsi, call.config.rsi_low) /\ ~Gt(LatestRsi, call.config.rsi_high))
              => call.result.value = NEUTRAL

\* C1 amended: SELL when the value is above the high threshold; BUY when it is
\* below the low threshold and not above the high one; NEUTRAL otherwise
\* (equality with a threshold and a value that is not a number included).
C1_Signal ==
    IsSignalCall =>
        /\ call.result.raised = ""
        /\ call.result.value =
              IF Gt(LatestRsi, call.config.rsi_high) THEN SELL
              ELSE IF Lt(LatestRsi, call.config.rsi_low) THEN BUY
              ELSE NEUTRAL
        /\ call.fn = "get_rsi_signal" =>
              /\ call.config.rsi_low = 30 /\ call.config.rsi_high = 70
              /\ call.config.rsi_period = 7

\* C1 witness: a value on a threshold gives NEUTRAL, and with crossed
\* thresholds a value between them gives SELL.
C1_Witness ==
    /\ call.fn = "get_signal" /\ ~call.window_empty
    /\ call.config.rsi_low > call.config.rsi_high
    /\ LatestRsi = call.config.rsi_high + 1
    /\ LatestRsi < call.config.rsi_low
    /\ call.result.value = SELL

IsProposalCall == call.fn = "create_proposal"

\* The reference price over 10000 and the two prices over 1000000, from the
\* formulas of the specification.
Direction(signal) == IF signal = BUY THEN 1 ELSE IF signal = SELL THEN 0 - 1 ELSE 0

ExpectedReference(s, mid, natr) ==
    mid * (10000 + Direction(s.rsi_signal) * s.bid_spread * natr
                     * s.rsi_spread_change_percentage)

ExpectedBuy(s, mid, natr) ==
    ExpectedReference(s, mid, natr) * (100 - s.bid_spread * natr)

ExpectedSell(s, mid, natr) ==
    ExpectedReference(s, mid, natr) * (100 + s.ask_spread * natr)

ProposalMatches(result, s, mid, natr) ==
    /\ result.raised = ""
    /\ result.adjusted_mid_price = ExpectedReference(s, mid, natr)
    /\ Len(result.orders) = 2
    /\ result.orders[1].order_side = "BUY"
    /\ result.orders[1].price = ExpectedBuy(s, mid, natr)
    /\ result.orders[2].order_side = "SELL"
    /\ result.orders[2].price = ExpectedSell(s, mid, natr)

\* C2 as stated: create_proposal computes reference = mid * (1 +/- bid_spread *
\* volatility * skew_pct) for BUY / SELL and mid otherwise, then buy_price =
\* reference * (1 - bid_spread * volatility) and sell_price = reference *
\* (1 + ask_spread * volatility), in both variants.
C2_ProposalAsClaimed ==
    IsProposalCall =>
        ProposalMatches(call.result, call.config, call.mid_price, call.natr)

\* The formulas of C2 hold of variant 1 (not of variant 2, whose get_natr
\* raises): the examples mid=100, volatility 0.01 give 99 / 101 for NEUTRAL
\* and 100.5, 99.495, 101.505 for BUY with skew 0.5.
Variant1ProposalFormulas ==
    (IsProposalCall /\ call.variant = 1) =>
        /\ ProposalMatches(call.result, call.config, call.mid_price, call.natr)
        /\ (/\ call.mid_price = 100 /\ call.natr = 1
            /\ call.config.bid_spread = 1 /\ call.config.ask_spread = 1
            /\ call.config.rsi_signal = NEUTRAL)
              => /\ call.result.orders[1].price = 99000000
                 /\ call.result.orders[2].price = 101000000
        /\ (/\ call.mid_price = 100 /\ call.natr = 1
            /\ call.config.bid_spread = 1 /\ call.config.ask_spread = 1
            /\ call.config.rsi_signal = BUY
            /\ call.config.rsi_spread_change_percentage = 50)
              => /\ call.result.adjusted_mid_price = 1005000
                 /\ call.result.orders[1].price = 99495000
                 /\ call.result.orders[2].price = 101505000

\* A proposal was returned for a positive mid price, a signal of BUY, SELL or
\* NEUTRAL and positive spreads and volatility.
ReturnedProposal ==
    /\ IsProposalCall
    /\ call.result.raised = ""
    /\ call.mid_price > 0
    /\ call.config.rsi_signal \in {BUY, SELL, NEUTRAL}
    /\ call.config.bid_spread > 0 /\ call.config.ask_spread > 0 /\ call.natr > 0

\* bid_spread * volatility * skew_pct, over 10000.
SkewShift ==
    call.config.bid_spread * call.natr * call.config.rsi_spread_change_percentage

\* C3 as stated: every returned quote pair has buy_price < sell_price when the
\* mid price, the spreads and the volatility are positive.
C3_OrderedAsClaimed ==
    ReturnedProposal =>
        call.result.orders[1].price < call.result.orders[2].price

\* C3 amended: buy_price < sell_price exactly when the reference price is
\* positive, that is unless the signal is SELL and bid_spread * volatility *
\* skew_pct is 1 or more.
C3_Ordered ==
    ReturnedProposal =>
        (call.result.orders[1].price < call.result.orders[2].price
            <=> ~(call.config.rsi_signal = SELL /\ SkewShift >= 10000))

\* C3 witness: a SELL signal with a skew that keeps the reference positive.
C3_Witness ==
    /\ ReturnedProposal
    /\ call.config.rsi_signal = SELL
    /\ SkewShift > 0 /\ SkewShift < 10000
    /\ call.result.orders[1].price < call.result.orders[2].price

(***************************************************************************)
(* Properties of the tick handler (Spec).                                  *)
(***************************************************************************)
IsTick == ticks' = ticks + 1
Handled == tick.outcome \in {"requote", "idle", "error"}   \* a ready tick

\* C4 as stated: on a tick with the provider ready, the handler re-quotes if and
\* only if last_mid_price is unset or the new mid price is more than
\* buffer_size away from it.
C4_RequoteAsClaimed ==
    [][ (IsTick /\ ready) =>
          ( tick'.outcome = "requote" <=>
              \/ strategy.last_mid_price = None
              \/ Abs(tick'.new_mid_price - strategy.last_mid_price) > buffer_size )
      ]_vars

\* On a ready tick out of which no error escapes, the re-quote test is the
\* one C4 states.
RequoteTestWhenNoError ==
    [][ (IsTick /\ ready /\ tick'.outcome # "error") =>
          ( tick'.outcome = "requote" <=>
              \/ strategy.last_mid_price = None
              \/ Abs(tick'.new_mid_price - strategy.last_mid_price) > buffer_size )
      ]_vars

\* C5 as stated: on a ready tick the signal is recomputed exactly when
\* create_timestamp <= current_timestamp, and then create_timestamp becomes
\* current_timestamp + rsi_refresh_time; every other tick leaves rsi_signal and
\* create_timestamp alone; two recomputations are rsi_refresh_time apart or more.
C5_RefreshAsClaimed ==
    [][ IsTick =>
          /\ ready => ( tick'.refreshed <=>
                          strategy.create_timestamp <= current_timestamp' )
          /\ ~ready => ~tick'.refreshed
          /\ tick'.refreshed =>
                /\ strategy'.create_timestamp =
                       current_timestamp' + rsi_refresh_time
                /\ last_refresh' = current_timestamp'
                /\ last_refresh # None =>
                       current_timestamp' - last_refresh >= rsi_refresh_time
          /\ ~tick'.refreshed =>
                /\ strategy'.rsi_signal = strategy.rsi_signal
                /\ strategy'.create_timestamp = strategy.create_timestamp
      ]_vars

\* On a tick out of which no error escapes, the refresh is the one C5 states.
RefreshWhenNoError ==
    [][ (IsTick /\ tick'.outcome # "error") =>
          /\ ready => ( tick'.refreshed <=>
                          strategy.create_timestamp <= current_timestamp' )
          /\ tick'.refreshed =>
                /\ strategy'.create_timestamp =
                       current_timestamp' + rsi_refresh_time
                /\ last_refresh # None =>
                       current_timestamp' - last_refresh >= rsi_refresh_time
          /\ ~tick'.refreshed =>
                /\ strategy'.rsi_signal = strategy.rsi_signal
                /\ strategy'.create_timestamp = strategy.create_timestamp
      ]_vars

\* C6 as stated: a ready tick that finds the candle window empty completes
\* without an error escaping the handler, and goes on to its re-quote decision.
C6_EmptyWindowAsClaimed ==
    (Handled /\ tick.window_empty) => tick.outcome \in {"requote", "idle"}

IsRequest(r, side) ==
    /\ r.order_side = side
    /\ r.order_type = "LIMIT"
    /\ r.is_maker
    /\ r.trading_pair = strategy.trading_pair

NothingEmitted ==
    /\ tick.requests = <<>>
    /\ \A i \in DOMAIN tick.steps : tick.steps[i] \notin {"cancel", "place"}

\* C7 as stated: a re-quoting tick emits exactly two requests, a maker-limit BUY
\* and a maker-limit SELL for the trading pair, both of the configured amount;
\* any other tick emits no order request and no cancel.
C7_RequestsAsClaimed ==
    /\ tick.outcome = "requote" =>
          /\ Len(tick.requests) = 2
          /\ IsRequest(tick.requests[1], "BUY")
          /\ IsRequest(tick.requests[2], "SELL")
          /\ \A i \in 1..2 : tick.requests[i].amount = strategy.order_amount
    /\ tick.outcome # "requote" => NothingEmitted

\* C7 amended: as stated, but each request has the configured amount or, when
\* the budget checker sized the candidate to zero, the amount 0.
C7_Requests ==
    /\ tick.outcome = "requote" =>
          /\ Len(tick.requests) = 2
          /\ IsRequest(tick.requests[1], "BUY")
          /\ IsRequest(tick.requests[2], "SELL")
          /\ \A i \in 1..2 :
                tick.requests[i].amount \in {strategy.order_amount, 0}
    /\ tick.outcome # "requote" => NothingEmitted

\* C7 witness: a re-quoting tick whose buy request was sized to zero and whose
\* sell request kept the configured amount.
C7_Witness ==
    /\ tick.outcome = "requote"
    /\ tick.requests[1].amount = 0
    /\ tick.requests[2].amount = strategy.order_amount

Unchanged(fields) == \A f \in DOMAIN strategy \ fields : strategy'[f] = strategy[f]

NotReadyTickChangesNothing ==
    (IsTick /\ ~ready) =>
        UNCHANGED <<strategy, active_orders, quoted_mid, last_refresh>>

\* C8 as stated: a tick modifies no field of the strategy other than the cached
\* signal and the last mid price, and a tick with the provider not ready
\* modifies nothing.
C8_FrameAsClaimed ==
    [][ /\ Unchanged({"rsi_signal", "last_mid_price"})
        /\ NotReadyTickChangesNothing ]_vars

\* C8 amended: a tick modifies no field of the strategy other than rsi_signal,
\* last_mid_price and create_timestamp (the refresh timer), and a tick with the
\* provider not ready modifies nothing.
C8_Frame ==
    [][ /\ Unchanged({"rsi_signal", "last_mid_price", "create_timestamp"})
        /\ NotReadyTickChangesNothing ]_vars

\* C8 witness: a tick has changed all three fields.
C8_Witness ==
    /\ tick.outcome = "requote" /\ tick.refreshed
    /\ strategy.rsi_signal # StrategyInit(1).rsi_signal
    /\ strategy.last_mid_price # None
    /\ strategy.create_timestamp = current_timestamp + rsi_refresh_time

\* last_mid_price is unset or the mid price behind the latest quotes.
LastMidIsQuotedMid == strategy.last_mid_price = quoted_mid

\* C9 as stated: last_mid_price is unset or the mid price from which the most
\* recent quote pair was computed, and a mid price read by a tick is never left
\* more than buffer_size away from it without a re-quote.
C9_LastMidAsClaimed ==
    /\ LastMidIsQuotedMid
    /\ (Handled /\ strategy.last_mid_price # None) =>
          Abs(tick.new_mid_price - strategy.last_mid_price) <= buffer_size

FreshOrders == { o \in active_orders : o.placed_at = current_timestamp }

\* C10: in variant 1 a re-quoting tick runs refresh (if due), cancel, propose,
\* adjust, place, set last_mid_price in this order; the proposal uses the signal
\* as refreshed in the tick; afterwards every order placed before the tick has
\* a pending cancel request, and the orders without one are at most the two
\* placed in the tick.
C10_RequoteOrder ==
    (variant = 1 /\ tick.outcome = "requote") =>
        /\ tick.steps =
              (IF tick.refreshed THEN <<"refresh">> ELSE <<>>)
              \o <<"cancel", "propose", "adjust", "place", "set_last_mid_price">>
        /\ tick.requests[1].price =
              ExpectedBuy(strategy, tick.new_mid_price, tick.natr)
        /\ tick.requests[2].price =
              ExpectedSell(strategy, tick.new_mid_price, tick.natr)
        /\ strategy.last_mid_price = tick.new_mid_price
        /\ \A o \in active_orders \ FreshOrders : o.cancel_requested
        /\ { o \in active_orders : ~o.cancel_requested } \subseteq FreshOrders
        /\ Cardinality(FreshOrders) <= 2

\* C10 witness: a re-quoting tick that refreshed the signal to SELL, with an
\* order of an earlier tick still tracked and both new orders tracked.
C10_Witness ==
    /\ variant = 1 /\ tick.outcome = "requote" /\ tick.refreshed
    /\ strategy.rsi_signal = SELL
    /\ Cardinality(FreshOrders) = 2
    /\ \E o \in active_orders : o.placed_at < current_timestamp

====
